---- MODULE Spec2Model ----
(***************************************************************************)
(* LCD-PushWheel.ino: the pushwheel display controller displayValue(), its *)
(* per-digit animation state digits[], the glyph table digitsMap and the   *)
(* LCD custom-character uploads of updateDisplay().                        *)
(*                                                                         *)
(* One step of the model is one call of displayValue(value) made at clock  *)
(* reading millis() = now.  The three actions are the three cases of the   *)
(* switch on the static variable state.                                    *)
(***************************************************************************)
EXTENDS Integers, Sequences, FiniteSets, TLC

(***************************************************************************)
(* Program constants                                                       *)
(***************************************************************************)
ANIMATION_FRAME_TIME == 50

DISP_R == 1

DISP_C == 0

CHAR_ROWS == 8

MAX_DIGITS == 8

Slots == 0 .. (MAX_DIGITS - 1)

Rows == 0 .. (CHAR_ROWS - 1)

\* A row-indexed bitmap (uint8_t [CHAR_ROWS]) from the rows listed in order.
Bitmap(t) == [p \in Rows |-> t[p + 1]]

digitsMap ==
  [d \in 0 .. 9 |->
     Bitmap(CASE d = 0 -> <<14, 17, 19, 21, 25, 17, 14, 0>>
              [] d = 1 -> <<4, 12, 4, 4, 4, 4, 14, 0>>
              [] d = 2 -> <<14, 17, 1, 2, 4, 8, 31, 0>>
              [] d = 3 -> <<31, 2, 4, 2, 1, 17, 14, 0>>
              [] d = 4 -> <<2, 6, 10, 18, 31, 2, 2, 0>>
              [] d = 5 -> <<31, 16, 30, 1, 1, 17, 14, 0>>
              [] d = 6 -> <<6, 8, 16, 30, 17, 17, 14, 0>>
              [] d = 7 -> <<31, 17, 1, 2, 4, 4, 4, 0>>
              [] d = 8 -> <<14, 17, 17, 14, 17, 17, 14, 0>>
              [] d = 9 -> <<14, 17, 17, 15, 1, 2, 12, 0>>)]

(***************************************************************************)
(* millis() is a free-running uint32_t.  A 32-bit unsigned number is kept  *)
(* as two 16-bit halves [hi, lo] so that the subtraction of line 206 keeps *)
(* its width (it wraps modulo 2^32).                                       *)
(***************************************************************************)
HalfWord == 65536

U32(h, l) == [hi |-> h, lo |-> l]

Zero32 == U32(0, 0)

Add32(a, n) ==
  LET s == a.lo + n
  IN  U32((a.hi + (s \div HalfWord)) % HalfWord, s % HalfWord)

Sub32(a, b) ==
  LET l == a.lo - b.lo
      borrow == IF l < 0 THEN 1 ELSE 0
  IN  U32((a.hi - b.hi - borrow) % HalfWord, l % HalfWord)

\* x >= n for a 32-bit x and a small constant n < 2^16
Geq32(x, n) == x.hi > 0 \/ x.lo >= n

(***************************************************************************)
(* Bounds of the model                                                     *)
(***************************************************************************)
\* milliseconds of clock time covered by one behaviour
MaxElapsed == 900

\* the clock at the first call is WrapLead ms before the 2^32 wrap, or boot
WrapLead == 430

\* values handed to displayValue
Values == {12345669, 12345670, 12345671, 112345670}

\* clock time between two consecutive calls, in ms
Deltas == {25, 50}

StartTimes == {Zero32, Sub32(Zero32, U32(0, WrapLead))}

Dirs == {"UP", "DWN"}

VARIABLES
  state,      \* static enum state of displayValue
  valueLast,  \* static uint32_t valueLast of displayValue
  digits,     \* digitData_t digits[MAX_DIGITS]
  now,        \* millis()
  lcdCGRAM,   \* custom characters held by the LCD (lcd.createChar)
  lcdCell,    \* character code written at column DISP_C + i of row DISP_R
  arg,        \* the value passed to the latest call
  ret,        \* what the latest call returned
  again,      \* the latest call repeated the value of a call that returned true
  created,    \* LCD positions given to lcd.createChar by the latest call
  advanced,   \* slots whose frame the latest call rendered
  hist,       \* per slot: the index values rendered since it was last reset
  shown,      \* the value last separated into digits[].curr
  shownFrom,  \* the value that was shown when that separation was made
  okDirs,     \* roll directions every frame of the current animation agrees with
  elapsed,    \* clock time since the first state
  frameAt,    \* per slot: elapsed at its latest frame since the last change, or -1
  rolled,     \* the slots that have rendered a frame since boot
  lastCheck,  \* static uint32_t lastCheck of getKey
  loopValue,  \* static uint32_t value of loop
  key,        \* what the latest call of getKey returned
  sinceKey    \* clock time since getKey last returned a key, or -1

vars == <<state, valueLast, digits, now, lcdCGRAM, lcdCell, arg, ret, again,
          created, advanced, hist, shown, shownFrom, okDirs, elapsed, frameAt,
          rolled, lastCheck, loopValue, key, sinceKey>>

\* the statics of getKey and loop
keyVars == <<lastCheck, loopValue, key, sinceKey>>

(***************************************************************************)
(* LCD shield keys                                                         *)
(***************************************************************************)
KEY_NONE == 0

KEY_RIGHT == 1

KEY_UP == 2

KEY_DOWN == 3

KEY_LEFT == 4

KEY_SELECT == 5

keyDefTable ==
  << [adcThreshold |-> 760, id |-> KEY_SELECT],
     [adcThreshold |-> 535, id |-> KEY_LEFT],
     [adcThreshold |-> 360, id |-> KEY_DOWN],
     [adcThreshold |-> 160, id |-> KEY_UP],
     [adcThreshold |-> 60, id |-> KEY_RIGHT] >>

\* static uint32_t value = 12345678 of loop
StartValue == 12345678

(***************************************************************************)
(* Pure parts of displayValue                                              *)
(***************************************************************************)
RECURSIVE DivTen(_, _)
\* value after n rounds of  value = value / 10
DivTen(value, n) == IF n = 0 THEN value ELSE DivTen(value \div 10, n - 1)

\* mutant: the loop without  value = value / 10
SeparatedDigit_noDivide(value, i) == value % 10

\* digits[i].curr = value % 10 in round i of the "separate digits" loop
SeparatedDigit(value, i) == DivTen(value, i) % 10

\* what is left in the parameter value after the loop
Remainder(value) == DivTen(value, MAX_DIGITS)

\* mutant: the frame test without "timer has expired"
FrameDue_noTimer(d, t) == d.prev # d.curr

\* mutant: the frame test without "values are different"
FrameDue_timerOnly(d, t) ==
  Geq32(Sub32(t, d.timeLastFrame), ANIMATION_FRAME_TIME)

\* "values are different and timer has expired", read at clock t
FrameDue(d, t) ==
  /\ d.prev # d.curr
  /\ Geq32(Sub32(t, d.timeLastFrame), ANIMATION_FRAME_TIME)

\* the test that selects the scroll-up branch
ScrollsUp(value, last) == value > last

\* mutant: the row of the old digit read for every p
UpRead_noWrap(d, p) == [digit |-> d.prev, row |-> p + d.index]

\* the entry of digitsMap that row p of a scroll-up frame is copied from
UpRead(d, p) ==
  IF p < CHAR_ROWS - d.index
    THEN [digit |-> d.prev, row |-> p + d.index]
    ELSE [digit |-> d.curr, row |-> p - CHAR_ROWS + d.index]

\* the entry of digitsMap that row p of a scroll-down frame is copied from
DownRead(d, p) ==
  IF p < d.index
    THEN [digit |-> d.curr, row |-> p + CHAR_ROWS - d.index]
    ELSE [digit |-> d.prev, row |-> p - d.index]

\* mutant: the two glyphs taken the wrong way round
ScrollUp_swapped(d) ==
  [p \in Rows |->
     IF p < CHAR_ROWS - d.index
       THEN digitsMap[d.curr][p + d.index]
       ELSE digitsMap[d.prev][p - CHAR_ROWS + d.index]]

\* "scroll up": the bottom of the old digit, then the top of the new one
ScrollUp(d) ==
  [p \in Rows |-> LET r == UpRead(d, p) IN digitsMap[r.digit][r.row]]

\* mutant: the scroll-down branch a copy of the scroll-up branch
ScrollDown_copyOfUp(d) ==
  [p \in Rows |->
     IF p < CHAR_ROWS - d.index
       THEN digitsMap[d.prev][p + d.index]
       ELSE digitsMap[d.curr][p - CHAR_ROWS + d.index]]

\* "scroll down": the bottom of the new digit, then the top of the old one
ScrollDown(d) ==
  [p \in Rows |-> LET r == DownRead(d, p) IN digitsMap[r.digit][r.row]]

\* mutant: done one frame early (>= for >)
AnimDone_early(index) == index >= CHAR_ROWS

\* mutant: done one frame late
AnimDone_late(index) == index > CHAR_ROWS + 1

\* "done animating" test on the incremented index
AnimDone(index) == index > CHAR_ROWS

\* mutant: the frame that completes the animation not rendered
Frame_noLastFrame(d, up, t) ==
  LET next == (d.index + 1) % 256
  IN  [timeLastFrame |-> t,
       prev          |-> IF AnimDone(next) THEN d.curr ELSE d.prev,
       curr          |-> d.curr,
       index         |-> next,
       charMap       |-> IF AnimDone(next) THEN d.charMap
                         ELSE IF up THEN ScrollUp(d) ELSE ScrollDown(d)]

\* one frame of slot d: new bitmap, index++, timeLastFrame, prev snapped when done
Frame(d, up, t) ==
  LET next == (d.index + 1) % 256
  IN  [timeLastFrame |-> t,
       prev          |-> IF AnimDone(next) THEN d.curr ELSE d.prev,
       curr          |-> d.curr,
       index         |-> next,
       charMap       |-> IF up THEN ScrollUp(d) ELSE ScrollDown(d)]

\* the slots whose frame is rendered by the loop of ST_ANIM at clock t
Due(ds, t) == {i \in Slots : FrameDue(ds[i], t)}

\* mutant: the digits of the value separated again in every animating call
Animate_retarget(ds, value, last, t) ==
  [i \in Slots |->
     LET d == [ds[i] EXCEPT !.curr = SeparatedDigit(value, i)]
     IN  IF FrameDue(d, t) THEN Frame(d, ScrollsUp(value, last), t) ELSE d]

\* the loop of ST_ANIM over all slots
Animate(ds, value, last, t) ==
  [i \in Slots |->
     IF FrameDue(ds[i], t) THEN Frame(ds[i], ScrollsUp(value, last), t) ELSE ds[i]]

\* "are we done animating?"
AllDone(ds) == \A i \in Slots : ds[i].prev = ds[i].curr

\* mutant: custom character i taken from slot i
CharSource_sameIndex(i) == i

\* the slot whose bitmap becomes custom character i
CharSource(i) == MAX_DIGITS - i - 1

\* mutant: updateDisplay never called from ST_ANIM
Uploaded_never(bUpdate) == {}

\* mutant: updateDisplay called whether or not a frame was rendered
Uploaded_always(bUpdate) == Slots

\* the LCD positions updateDisplay gives to lcd.createChar
Uploaded(bUpdate) == IF bUpdate THEN Slots ELSE {}

\* custom characters after updateDisplay, when it is called
CreateChars(ds, cgram, positions) ==
  [i \in (DOMAIN cgram) \cup positions |->
     IF i \in positions THEN ds[CharSource(i)].charMap ELSE cgram[i]]

\* cells written by updateDisplay(r, c, true): character i at column c + i
WriteCells(c) == [col \in {c + i : i \in Slots} |-> col - c]

\* mutant: "return true if an animation is current"
Returned_animating(st) == st = "ST_ANIM"

\* the value returned
Returned(st) == st = "ST_WAIT"

\* the bitmap of frame d.index rolled in direction dir
Blend(dir, d) == IF dir = "UP" THEN ScrollUp(d) ELSE ScrollDown(d)

(***************************************************************************)
(* Initial state: the statics of displayValue and the zeroed global        *)
(* digits[]; nothing has been sent to the LCD.  The clock is at boot, or   *)
(* WrapLead ms before it wraps (an idle display polled with one value      *)
(* keeps exactly the state the first call leaves, so the later start is    *)
(* the state of a sketch that has been idle since boot).                   *)
(***************************************************************************)
NoBitmap == [p \in Rows |-> 0]

Init ==
  /\ state = "ST_INIT"
  /\ valueLast = 0
  /\ digits = [i \in Slots |->
                [timeLastFrame |-> Zero32, prev |-> 0, curr |-> 0, index |-> 0,
                 charMap |-> NoBitmap]]
  /\ now \in StartTimes
  /\ lcdCGRAM = [i \in {} |-> NoBitmap]
  /\ lcdCell = [c \in {} |-> 0]
  /\ arg = 0
  /\ ret = FALSE
  /\ again = FALSE
  /\ created = {}
  /\ advanced = {}
  /\ hist = [i \in Slots |-> << >>]
  /\ shown = 0
  /\ shownFrom = 0
  /\ okDirs = Dirs
  /\ elapsed = 0
  /\ frameAt = [i \in Slots |-> -1]
  /\ rolled = {}
  /\ lastCheck = Zero32
  /\ loopValue = StartValue
  /\ key = KEY_NONE
  /\ sinceKey = -1

\* every call: the clock has moved on by dt, the call is made with value v
Call(v, dt) ==
  /\ elapsed + dt <= MaxElapsed
  /\ elapsed' = elapsed + dt
  /\ now' = Add32(now, dt)
  /\ arg' = v
  /\ again' = (state # "ST_INIT" /\ ret /\ v = arg)

\* case ST_INIT
InitCall(v, dt) ==
  /\ state = "ST_INIT"
  /\ Call(v, dt)
  /\ LET ds == [i \in Slots |->
                 [digits[i] EXCEPT !.prev = SeparatedDigit(v, i),
                                   !.curr = SeparatedDigit(v, i),
                                   !.charMap = digitsMap[SeparatedDigit(v, i)]]]
     IN  /\ digits' = ds
         /\ lcdCGRAM' = CreateChars(ds, lcdCGRAM, Slots)
         /\ lcdCell' = WriteCells(DISP_C)
  /\ created' = Slots
  /\ state' = "ST_WAIT"
  /\ ret' = Returned(state')
  /\ advanced' = {}
  /\ shown' = v
  /\ shownFrom' = v
  /\ UNCHANGED <<valueLast, hist, okDirs>>

\* case ST_ANIM on slots ds with the parameter holding value; h and ok are
\* hist and okDirs as the case finds them
AnimCase(ds, value, h, ok) ==
  /\ advanced' = Due(ds, now')
  /\ digits' = Animate(ds, value, valueLast, now')
  /\ created' = Uploaded(advanced' # {})
  /\ lcdCGRAM' = CreateChars(digits', lcdCGRAM, created')
  /\ lcdCell' = lcdCell
  /\ IF AllDone(digits')
       THEN valueLast' = value /\ state' = "ST_WAIT"
       ELSE valueLast' = valueLast /\ state' = "ST_ANIM"
  /\ ret' = Returned(state')
  /\ hist' = [i \in Slots |->
                IF i \in advanced' THEN Append(h[i], ds[i].index) ELSE h[i]]
  /\ okDirs' = {dir \in ok :
                  \A i \in advanced' : digits'[i].charMap = Blend(dir, ds[i])}

\* mutant: a slot whose digit is unchanged left as it is
Retarget_onlyIfChanged(d, digit) ==
  IF d.curr = digit
    THEN d
    ELSE [d EXCEPT !.curr = digit, !.index = 0, !.timeLastFrame = Zero32]

\* one pass of the loop of ST_WAIT: the slot given its digit of the new value
Retarget(d, digit) ==
  [d EXCEPT !.curr = digit, !.index = 0, !.timeLastFrame = Zero32]

\* case ST_WAIT: no change, or a change and the fall through to ST_ANIM
WaitCall(v, dt) ==
  /\ state = "ST_WAIT"
  /\ Call(v, dt)
  /\ IF valueLast # v
       THEN /\ AnimCase([i \in Slots |->
                           Retarget(digits[i], SeparatedDigit(v, i))],
                        Remainder(v), [i \in Slots |-> << >>], Dirs)
            /\ shown' = v
            /\ shownFrom' = shown
       ELSE /\ ret' = Returned(state)
            /\ created' = {}
            /\ advanced' = {}
            /\ UNCHANGED <<state, valueLast, digits, lcdCGRAM, lcdCell, hist,
                           shown, shownFrom, okDirs>>

\* case ST_ANIM
AnimCall(v, dt) ==
  /\ state = "ST_ANIM"
  /\ Call(v, dt)
  /\ AnimCase(digits, v, hist, okDirs)
  /\ UNCHANGED <<shown, shownFrom>>

\* the call finds a change: ST_WAIT with valueLast different from the value
Detects(v) == state = "ST_WAIT" /\ valueLast # v

\* bookkeeping of the frames: the time of each slot's latest frame since the
\* last change, and the slots that have rolled at all
Track ==
  /\ frameAt' = [i \in Slots |->
                   IF i \in advanced' THEN elapsed'
                   ELSE IF Detects(arg') THEN -1 ELSE frameAt[i]]
  /\ rolled' = rolled \cup advanced'

\* displayValue called with any of Values, at any of the clock steps
Next ==
  \/ \E v \in Values, dt \in Deltas :
       InitCall(v, dt) /\ Track /\ UNCHANGED keyVars
  \/ \E v \in Values, dt \in Deltas :
       WaitCall(v, dt) /\ Track /\ UNCHANGED keyVars
  \/ \E v \in Values, dt \in Deltas :
       AnimCall(v, dt) /\ Track /\ UNCHANGED keyVars

Spec == Init /\ [][Next]_vars

(***************************************************************************)
(* getKey and loop                                                         *)
(***************************************************************************)
\* "if (millis() - lastCheck > 200)"
KeyCheckTime == 200

\* ADC readings of the key port: one per key, and the reading with no key
Adcs == {30, 100, 300, 500, 700, 1023}

\* the for loop of getKey from entry k on, key being the match so far
RECURSIVE Scan(_, _, _)
Scan(input, k, match) ==
  IF k > Len(keyDefTable) THEN match
  ELSE IF input < keyDefTable[k].adcThreshold
         THEN Scan(input, k + 1, keyDefTable[k].id)
         ELSE match

\* mutant: the table scanned whatever the time since lastCheck
GetKey_noDebounce(input, t, last) == Scan(input, 1, KEY_NONE)

\* what getKey returns at clock t with lastCheck = last
GetKey(input, t, last) ==
  IF Geq32(Sub32(t, last), KeyCheckTime + 1)
    THEN Scan(input, 1, KEY_NONE)
    ELSE KEY_NONE

\* "if (k == KEY_UP) value++; else if (k == KEY_DOWN) value--;"
Driven(k, v) ==
  IF k = KEY_UP THEN v + 1 ELSE IF k = KEY_DOWN THEN v - 1 ELSE v

\* one pass of loop: the key port reads adc, dt after the previous pass
LoopStep(adc, dt) ==
  /\ key' = GetKey(adc, Add32(now, dt), lastCheck)
  /\ lastCheck' = IF key' # KEY_NONE THEN Add32(now, dt) ELSE lastCheck
  /\ loopValue' = Driven(key', loopValue)
  /\ sinceKey' = IF key' # KEY_NONE THEN 0
                 ELSE IF sinceKey < 0 THEN sinceKey ELSE sinceKey + dt
  /\ \/ InitCall(loopValue', dt)
     \/ WaitCall(loopValue', dt)
     \/ AnimCall(loopValue', dt)
  /\ Track

\* the sketch at boot, or idle in ST_WAIT on StartValue with no key pressed
\* so far and the clock WrapLead ms before its wrap
LoopInit ==
  \/ Init /\ now = Zero32
  \/ /\ state = "ST_WAIT"
     /\ valueLast = Remainder(StartValue)
     /\ digits = [i \in Slots |->
                   [timeLastFrame |-> Zero32,
                    prev    |-> SeparatedDigit(StartValue, i),
                    curr    |-> SeparatedDigit(StartValue, i),
                    index   |-> 0,
                    charMap |-> digitsMap[SeparatedDigit(StartValue, i)]]]
     /\ now = Sub32(Zero32, U32(0, WrapLead))
     /\ lcdCGRAM = CreateChars(digits, [i \in {} |-> NoBitmap], Slots)
     /\ lcdCell = WriteCells(DISP_C)
     /\ arg = StartValue
     /\ ret = TRUE
     /\ again = TRUE
     /\ created = {}
     /\ advanced = {}
     /\ hist = [i \in Slots |-> << >>]
     /\ shown = StartValue
     /\ shownFrom = StartValue
     /\ okDirs = Dirs
     /\ elapsed = 0
     /\ frameAt = [i \in Slots |-> -1]
     /\ rolled = {}
     /\ lastCheck = Zero32
     /\ loopValue = StartValue
     /\ key = KEY_NONE
     /\ sinceKey = -1

LoopNext == \E adc \in Adcs, dt \in Deltas : LoopStep(adc, dt)

LoopSpec == LoopInit /\ [][LoopNext]_vars

(***************************************************************************)
(* The blends of every digit pair.  The controller has just detected the   *)
(* change of its rightmost digit from a to b, less than a frame time after *)
(* boot, so that no frame is rendered yet (valueLast is still 0; b = 0     *)
(* comes from the value 10^MAX_DIGITS).  Every further call is made a      *)
(* frame time later, with a value above valueLast (scroll up) or with      *)
(* valueLast itself (scroll down).                                         *)
(***************************************************************************)
BlendInit ==
  \E a, b \in 0 .. 9 :
    /\ a # b
    /\ state = "ST_ANIM"
    /\ valueLast = 0
    /\ digits = [i \in Slots |->
                  [timeLastFrame |-> Zero32,
                   prev    |-> IF i = 0 THEN a ELSE 0,
                   curr    |-> IF i = 0 THEN b ELSE 0,
                   index   |-> 0,
                   charMap |-> digitsMap[IF i = 0 THEN a ELSE 0]]]
    /\ now = U32(0, ANIMATION_FRAME_TIME - 1)
    /\ lcdCGRAM = CreateChars(digits, [i \in {} |-> NoBitmap], Slots)
    /\ lcdCell = WriteCells(DISP_C)
    /\ arg = (IF b = 0 THEN 10 ^ MAX_DIGITS ELSE b)
    /\ ret = FALSE
    /\ again = FALSE
    /\ created = {}
    /\ advanced = {}
    /\ hist = [i \in Slots |-> << >>]
    /\ shown = arg
    /\ shownFrom = a
    /\ okDirs = Dirs
    /\ elapsed = 0
    /\ frameAt = [i \in Slots |-> -1]
    /\ rolled = {}
    /\ lastCheck = Zero32
    /\ loopValue = StartValue
    /\ key = KEY_NONE
    /\ sinceKey = -1

RollUp ==
  AnimCall(valueLast + 1, ANIMATION_FRAME_TIME) /\ Track /\ UNCHANGED keyVars

RollDown ==
  AnimCall(valueLast, ANIMATION_FRAME_TIME) /\ Track /\ UNCHANGED keyVars

BlendNext == RollUp \/ RollDown

BlendSpec == BlendInit /\ [][BlendNext]_vars

(***************************************************************************)
(* Vocabulary of the properties                                            *)
(***************************************************************************)
\* decimal digit i of v, as the specification writes it
DigitOf(v, i) == (v \div (10 ^ i)) % 10

Settled(i) == digits[i].prev = digits[i].curr

\* slot i is settled on digit i of v and shows its glyph
ShowsDigit(v, i) ==
  /\ Settled(i)
  /\ digits[i].curr = DigitOf(v, i)
  /\ digits[i].charMap = digitsMap[DigitOf(v, i)]

\* the direction the specification gives the change shownFrom -> shown
SpecDir == IF shown < shownFrom THEN "DWN" ELSE "UP"

TypeOK ==
  /\ state \in {"ST_INIT", "ST_WAIT", "ST_ANIM"}
  /\ \A i \in Slots : /\ digits[i].prev \in 0 .. 9
                       /\ digits[i].curr \in 0 .. 9
                       /\ digits[i].index \in 0 .. 255
  /\ ret \in BOOLEAN

(***************************************************************************)
(* C1  Convergence.  Once the supplied value stays at V the controller     *)
(* ends Idle with every slot settled on its digit of V and showing its     *)
(* glyph.  Finite form: a call with V made right after a call with V that  *)
(* returned Idle finds the controller at rest (it changes no slot, and so  *)
(* does every later call with V), hence at that point the slots must show  *)
(* V.                                                                      *)
(***************************************************************************)
C1_Convergence ==
  (again /\ ret) => \A i \in Slots : ShowsDigit(arg, i)

(***************************************************************************)
(* C2  Direction rule.  Every frame rendered for a change from the settled *)
(* value V to the new value W is the Down blend if W < V and the Up blend  *)
(* otherwise, for every animating slot.                                    *)
(***************************************************************************)
C2_DirectionRule ==
  state # "ST_INIT" => SpecDir \in okDirs

(***************************************************************************)
(* C3  Direction is decided once per value change: all frames of one       *)
(* animation are blends of one and the same roll direction, whatever       *)
(* values are supplied while the animation runs.                           *)
(***************************************************************************)
C3_OneDirection ==
  okDirs # {}

(***************************************************************************)
(* C4  Settled-value invariant.  Whenever the controller is Idle at the    *)
(* end of a call, valueLast is the value whose digits the slots hold.      *)
(***************************************************************************)
C4_SettledValue ==
  state = "ST_WAIT" =>
    \A i \in Slots : DigitOf(valueLast, i) = digits[i].curr

C6_AnimationLength ==
  state # "ST_INIT" =>
    \A i \in Slots :
      LET a == DigitOf(shownFrom, i)
          b == DigitOf(shown, i)
          n == Len(hist[i])
      IN  /\ hist[i] = [k \in 1 .. n |-> k - 1]
          /\ n <= CHAR_ROWS + 1
          /\ digits[i].curr = b
          /\ (a = b) => (n = 0 /\ Settled(i))
          /\ (a # b /\ n <= CHAR_ROWS) =>
                (digits[i].prev = a /\ digits[i].index = n)
          /\ (a # b /\ n = CHAR_ROWS + 1) => digits[i].prev = b

\* the call that renders the last frame of a slot, later than an animation
\* started at the first change can end
C6_Witness ==
  /\ state = "ST_WAIT"
  /\ advanced # {}
  /\ \E i \in Slots : /\ Len(hist[i]) = CHAR_ROWS + 1
                       /\ digits[i].prev = digits[i].curr
                       /\ DigitOf(shownFrom, i) # DigitOf(shown, i)
  /\ elapsed > (CHAR_ROWS + 2) * ANIMATION_FRAME_TIME

C8_OnlyDiffering ==
  [][\A i \in Slots :
       LET detects    == state = "ST_WAIT" /\ valueLast # arg'
           retargeted == detects /\ DigitOf(arg', i) # digits[i].curr
       IN  /\ detects => ((digits'[i].prev # digits'[i].curr) <=> retargeted)
           /\ (state # "ST_INIT" /\ digits[i].prev = digits[i].curr /\ ~retargeted) =>
                 /\ digits'[i].prev = digits'[i].curr
                 /\ digits'[i].charMap = digits[i].charMap
                 /\ i \notin advanced']_vars

\* one slot alone is animating, past its first frame
C8_Witness ==
  /\ state = "ST_ANIM"
  /\ {i \in Slots : ~Settled(i)} = {0}
  /\ digits[0].index > 1

(***************************************************************************)
(* C9  Selective push, as claimed: after initialization a custom glyph is  *)
(* uploaded (lcd.createChar) only for positions whose slot was advanced by *)
(* that call.                                                              *)
(***************************************************************************)
C9_SelectivePush ==
  [][state # "ST_INIT" =>
       \A pos \in created' : CharSource(pos) \in advanced']_vars

(***************************************************************************)
(* C9  as amended: after initialization a call uploads custom glyphs only  *)
(* if it advanced at least one slot, and then it uploads all MAX_DIGITS    *)
(* positions, those of slots it did not advance included (they get the     *)
(* bitmap they already had); no character cell is written again.           *)
(***************************************************************************)
C9_PushAllOnUpdate ==
  [][state # "ST_INIT" =>
       /\ created' = (IF advanced' # {} THEN Slots ELSE {})
       /\ lcdCell' = lcdCell
       /\ \A pos \in Slots :
            CharSource(pos) \notin advanced' => lcdCGRAM'[pos] = lcdCGRAM[pos]]_vars

\* a call advanced some slots but not all, and uploaded every position
C9_Witness ==
  /\ state = "ST_ANIM"
  /\ advanced # {}
  /\ advanced # Slots
  /\ created = Slots

(***************************************************************************)
(* C10  Digit decomposition with silent truncation.  The first call with   *)
(* value v, and every Idle call that detects a change to v, gives slot i   *)
(* the digit floor(v / 10^i) mod 10, the digits above the eighth being     *)
(* dropped; slot 0 is the one drawn in the rightmost of the 8 cells.       *)
(***************************************************************************)
C10_Decomposition ==
  [][((state = "ST_INIT" \/ (state = "ST_WAIT" /\ valueLast # arg')) =>
        /\ \A i \in Slots : /\ digits'[i].curr = DigitOf(arg', i)
                             /\ digits'[i].curr = DigitOf(arg' % (10 ^ MAX_DIGITS), i)
        /\ state' \in {"ST_WAIT", "ST_ANIM"})
     /\ (DOMAIN lcdCell' # {} =>
           /\ DOMAIN lcdCell' = DISP_C .. (DISP_C + MAX_DIGITS - 1)
           /\ lcdCGRAM'[lcdCell'[DISP_C + MAX_DIGITS - 1]] = digits'[0].charMap)]_vars

\* a value of more than eight digits has been separated into the slots
C10_Witness ==
  /\ state # "ST_INIT"
  /\ shown = arg
  /\ arg >= 10 ^ MAX_DIGITS
  /\ digits[0].curr = 0
  /\ digits[MAX_DIGITS - 1].curr = 1

(***************************************************************************)
(* C11  Progress range, as claimed: in every reachable state the index of  *)
(* every slot is within 0 .. CHAR_ROWS.                                    *)
(***************************************************************************)
C11_ProgressRange ==
  \A i \in Slots : digits[i].index \in 0 .. CHAR_ROWS

(***************************************************************************)
(* C11  as amended: the index of every slot is within 0 .. CHAR_ROWS + 1;  *)
(* it is at most CHAR_ROWS while the slot is unsettled, and a slot whose   *)
(* index is CHAR_ROWS + 1 is settled (that value marks the completed       *)
(* animation and stays until the next change is detected).                 *)
(***************************************************************************)
C11_ProgressRangeDone ==
  \A i \in Slots :
    /\ digits[i].index \in 0 .. (CHAR_ROWS + 1)
    /\ ~Settled(i) => digits[i].index <= CHAR_ROWS
    /\ digits[i].index = CHAR_ROWS + 1 => Settled(i)

\* a slot has finished an animation and holds index CHAR_ROWS + 1
C11_Witness ==
  \E i \in Slots : digits[i].index = CHAR_ROWS + 1 /\ state = "ST_WAIT"

(***************************************************************************)
(* C12  Blend formula.  The frame rendered at progress k for a roll from   *)
(* digit a to digit b has, rolling up, row p = glyph(a)[p + k] for         *)
(* p < 8 - k and glyph(b)[p - (8 - k)] otherwise; rolling down, row        *)
(* p = glyph(b)[p + 8 - k] for p < k and glyph(a)[p - k] otherwise.  In    *)
(* both directions frame 0 is glyph(a) and frame 8 is glyph(b).            *)
(***************************************************************************)
C12_BlendFormula ==
  [][\A i \in advanced' :
       LET a  == digits[i].prev
           b  == digits[i].curr
           k  == digits[i].index
           up == arg' > valueLast
           f  == digits'[i].charMap
       IN  /\ up => \A p \in Rows :
                      f[p] = IF p < CHAR_ROWS - k
                               THEN digitsMap[a][p + k]
                               ELSE digitsMap[b][p - (CHAR_ROWS - k)]
           /\ ~up => \A p \in Rows :
                       f[p] = IF p < k
                                THEN digitsMap[b][p + CHAR_ROWS - k]
                                ELSE digitsMap[a][p - k]
           /\ k = 0 => f = digitsMap[a]
           /\ k = CHAR_ROWS => f = digitsMap[b]]_vars

\* a frame in the middle of a roll that was rendered scrolling down
C12_Witness ==
  /\ advanced = {0}
  /\ digits[0].index = 4
  /\ okDirs = {"DWN"}

(***************************************************************************)
(* C13  Mirror symmetry.  For every digit pair (a, b) and step k the       *)
(* downward frame k from a to b is row for row the upward frame 8 - k from *)
(* b to a, and the other way round.                                        *)
(***************************************************************************)
C13_MirrorSymmetry ==
  [][\A i \in advanced' :
       LET d      == digits[i]
           mirror == [d EXCEPT !.prev = d.curr, !.curr = d.prev,
                               !.index = CHAR_ROWS - d.index]
           up     == arg' > valueLast
           f      == digits'[i].charMap
       IN  /\ ~up => f = ScrollUp(mirror)
           /\ up => f = ScrollDown(mirror)]_vars

\* a frame past the middle of a roll that was rendered scrolling up
C13_Witness ==
  /\ advanced = {0}
  /\ digits[0].index = 6
  /\ okDirs = {"UP"}

(***************************************************************************)
(* C14  New values are deferred while animating.  No call made in ST_ANIM  *)
(* changes the curr of any slot, whatever its value; the curr of a slot    *)
(* changes only in the first call or in a call made in ST_WAIT that finds  *)
(* valueLast different from its value.                                     *)
(***************************************************************************)
C14_Deferred ==
  [][/\ state = "ST_ANIM" => \A i \in Slots : digits'[i].curr = digits[i].curr
     /\ (\E i \in Slots : digits'[i].curr # digits[i].curr)
          => (state = "ST_INIT" \/ Detects(arg'))]_vars

\* a call made while animating, with a value whose digits differ from the targets
C14_Witness ==
  /\ state = "ST_ANIM"
  /\ arg # shown
  /\ advanced # {}
  /\ \A i \in Slots : digits[i].curr = DigitOf(shown, i)
  /\ \E i \in Slots : DigitOf(arg, i) # DigitOf(shown, i)

(***************************************************************************)
(* C15  Retarget is a no-op for an unchanged digit.  When a call in        *)
(* ST_WAIT detects a change, a slot whose digit in the new value equals    *)
(* its curr is left entirely untouched: prev, curr, index, timeLastFrame   *)
(* and charMap are all unchanged.                                          *)
(***************************************************************************)
C15_RetargetNoOp ==
  [][Detects(arg') =>
       \A i \in Slots :
         digits[i].curr = SeparatedDigit(arg', i) => digits'[i] = digits[i]]_vars

\* C15 as the code has it: prev, curr and charMap of such a slot are
\* unchanged and the slot stays settled, while its index and its
\* timeLastFrame are reset to 0 like those of every other slot.
C15_RetargetResets ==
  [][Detects(arg') =>
       \A i \in Slots :
         digits[i].curr = SeparatedDigit(arg', i) =>
           /\ digits'[i].prev = digits[i].prev
           /\ digits'[i].curr = digits[i].curr
           /\ digits'[i].charMap = digits[i].charMap
           /\ digits'[i].prev = digits'[i].curr
           /\ digits'[i].index = 0
           /\ digits'[i].timeLastFrame = Zero32]_vars

\* a slot that rolled earlier, reset by a later change that leaves its digit
C15_Witness ==
  \E i \in Slots :
    /\ i \in rolled
    /\ hist[i] = << >>
    /\ digits[i].prev = digits[i].curr
    /\ digits[i].index = 0
    /\ digits[i].timeLastFrame = Zero32
    /\ shown # shownFrom

(***************************************************************************)
(* C16  Key debounce.  Two calls of getKey that return a key other than    *)
(* KEY_NONE are at least 200 ms of clock time apart, also across the wrap  *)
(* of the 32-bit clock; every call made within 200 ms of the last accepted *)
(* key returns KEY_NONE whatever the ADC reading; the value driven by loop *)
(* changes by at most 1 in any 200 ms.                                     *)
(***************************************************************************)
C16_Debounce ==
  [][LET since == sinceKey + (elapsed' - elapsed)
         step  == loopValue' - loopValue
     IN  /\ (key' # KEY_NONE /\ sinceKey >= 0) => since >= KeyCheckTime
         /\ (sinceKey >= 0 /\ since <= KeyCheckTime) => key' = KEY_NONE
         /\ step \in {-1, 0, 1}
         /\ step # 0 => (sinceKey < 0 \/ since >= KeyCheckTime)]_vars

\* KEY_DOWN accepted just after the wrap of the clock, KEY_UP before it
C16_Witness ==
  /\ key = KEY_DOWN
  /\ loopValue = StartValue
  /\ lastCheck = now
  /\ now.hi = 0
  /\ now.lo < KeyCheckTime
  /\ now.lo < elapsed

C18_SettledGlyph ==
  state # "ST_INIT" =>
    \A i \in Slots :
      digits[i].prev = digits[i].curr =>
        digits[i].charMap = digitsMap[digits[i].curr]

\* an animation just completed whose frames agree with neither direction,
\* the value of the completing call not being the one it rolled to
C18_Witness ==
  /\ state = "ST_WAIT"
  /\ okDirs = {}
  /\ arg # shown
  /\ advanced # {}
  /\ \A i \in advanced : digits[i].index = CHAR_ROWS + 1

(***************************************************************************)
(* C19  Glyph-table accesses stay in range.  In every state prev and curr  *)
(* of each slot are in 0..9, and every read of digitsMap made to render a  *)
(* frame uses a digit in 0..9 and a row in 0..CHAR_ROWS-1, in both         *)
(* directions and at every index at which a frame can be rendered (that of *)
(* a slot with prev different from curr).                                  *)
(***************************************************************************)
C19_ReadsInRange ==
  \A i \in Slots :
    /\ digits[i].prev \in 0 .. 9
    /\ digits[i].curr \in 0 .. 9
    /\ digits[i].prev # digits[i].curr =>
         \A p \in 0 .. (CHAR_ROWS - 1) :
           /\ UpRead(digits[i], p).digit \in 0 .. 9
           /\ UpRead(digits[i], p).row \in 0 .. (CHAR_ROWS - 1)
           /\ DownRead(digits[i], p).digit \in 0 .. 9
           /\ DownRead(digits[i], p).row \in 0 .. (CHAR_ROWS - 1)

\* a slot about to render its last frame, the value having nine digits
C19_Witness ==
  /\ shown >= 10 ^ MAX_DIGITS
  /\ \E i \in Slots :
       /\ digits[i].prev # digits[i].curr
       /\ digits[i].index = CHAR_ROWS
       /\ hist[i] # << >>

(***************************************************************************)
(* C20  Display stays in sync with the slots.  At the end of every call    *)
(* the custom character last uploaded to position i (i = 0..7) is the      *)
(* charMap of slot MAX_DIGITS-1-i: every bitmap change made during a call  *)
(* is pushed within that call, and no charMap ever differs from what the   *)
(* display was last given.                                                 *)
(***************************************************************************)
C20_DisplayInSync ==
  state # "ST_INIT" =>
    /\ DOMAIN lcdCGRAM = 0 .. (MAX_DIGITS - 1)
    /\ \A i \in 0 .. (MAX_DIGITS - 1) :
         lcdCGRAM[i] = digits[MAX_DIGITS - 1 - i].charMap

\* the display holds a blend in its rightmost position, pushed by a call
\* that rendered the rightmost slot and not the one next to it
C20_Witness ==
  /\ state = "ST_ANIM"
  /\ 0 \in advanced
  /\ 1 \notin advanced
  /\ digits[0].index = 5
  /\ lcdCGRAM[MAX_DIGITS - 1] = digits[0].charMap
  /\ \A g \in 0 .. 9 : lcdCGRAM[MAX_DIGITS - 1] # digitsMap[g]

====
